---------------------------- MODULE Spec2Model ----------------------------
(***************************************************************************)
(* figure-generator.py: the dispatcher (__main__), the pool based batch    *)
(* conversion FigEngine.conv_to (Gradot, Inkcvt, Immcvt, Kroki), the       *)
(* process based Drawio.conv_to with its page level pool, the cache gate   *)
(* and the external actions (shell command, HTTP GET).                     *)
(*                                                                         *)
(* A file is [dir, parts, readable, lines]: its directory, its basename    *)
(* split at the dots, whether open() succeeds, and (drawio documents) the  *)
(* lines holding '<diagram'.  A path on disk is [dir, base].               *)
(***************************************************************************)
EXTENDS Naturals, Sequences, FiniteSets, Bags, TLC

VARIABLES
    args,       \* the parsed command line (cli): source, output, format, force, convert
    fs,         \* artifact files on disk
    dirs,       \* directories on disk
    main,       \* the dispatcher process: pc, r.get() index, exit status
    batch,      \* the dispatcher's lists drawios/dotfiles/mmds/svgs/others (source indexes)
    unit,       \* per input file: the position of its conv_single_to
    pages,      \* per drawio document: diagnames, cmds and the state of every _convert task
    out,        \* per input file, per unit of work: what the unit did in this run
    prev,       \* out of the previous run of the same command line
    run,        \* 1 for the first invocation, 2 for its repetition
    clobbered,  \* paths on which an action was issued while the path existed
    stderr,     \* bag of diagnostics written with eprint / tracebacks
    stdout      \* bag of lines written with print

vars == <<args, fs, dirs, main, batch, unit, pages, out, prev, run,
          clobbered, stderr, stdout>>

-----------------------------------------------------------------------------
(* Bounds of the model *)

MaxFiles == 2       \* input paths on the command line
MaxPages == 2       \* '<diagram' lines of one drawio document
MaxRuns == 2        \* invocations of the same command line in succession

(* Program constants *)

processes == 8      \* Pool(processes=8)

NoExt == "<none>"   \* filter_re does not match
NoName == "<none>"  \* a '<diagram' line without name="..."

-----------------------------------------------------------------------------
(* Paths and names *)

RECURSIVE JoinDots(_)
JoinDots(parts) ==
    IF Len(parts) = 0 THEN ""
    ELSE IF Len(parts) = 1 THEN parts[1]
    ELSE parts[1] \o "." \o JoinDots(Tail(parts))

\* os.path.basename(file)
Basename(f) == JoinDots(f.parts)

\* filter_re = r'.*[.](\w+)$' searched in the path: the text after the last dot
FileExt(f) == IF Len(f.parts) >= 2 THEN f.parts[Len(f.parts)] ELSE NoExt

\* re.sub(r'\.\w+$', r'', os.path.basename(file)): the last extension is cut
FigFn(f) ==
    IF Len(f.parts) >= 2 THEN JoinDots(SubSeq(f.parts, 1, Len(f.parts) - 1))
    ELSE Basename(f)

\* os.path.basename(file).replace('.drawio', ''): every '.drawio' is cut
DioFn(f) ==
    LET keep == {k \in 1..Len(f.parts) : k = 1 \/ f.parts[k] # "drawio"}
        RECURSIVE Pick(_)
        Pick(k) == IF k > Len(f.parts) THEN <<>>
                   ELSE IF k \in keep THEN <<f.parts[k]>> \o Pick(k + 1)
                   ELSE Pick(k + 1)
    IN  JoinDots(Pick(1))

\* os.path.splitext(_fname): (fname, fsufx)
KrokiFname(f) ==
    IF Len(f.parts) >= 2 THEN JoinDots(SubSeq(f.parts, 1, Len(f.parts) - 1))
    ELSE Basename(f)

KrokiSufx(f) ==
    IF Len(f.parts) >= 2 THEN "." \o f.parts[Len(f.parts)] ELSE ""

\* target = target if target else figpath + '/figure'
Target(f, output) == IF output # "" THEN output ELSE f.dir \o "/figure"

\* '{}/{}.{}'.format(target, figfn, type) and f'{target}/{diofn}{diagname}.{type}'
FigPath(target, fn, suffix, type) ==
    [dir |-> target, base |-> fn \o suffix \o "." \o type]

Range(s) == {s[k] : k \in 1..Len(s)}

\* the path of an input file as it is printed
PathStr(f) == f.dir \o "/" \o Basename(f)

\* the path of an artifact as it is printed
PathStr2(p) == p.dir \o "/" \o p.base

\* a line of output: its fixed text, the tool or input path it names, the page
\* index it names, and the format or output path it names
Msg(text, who, page, what) == [text |-> text, who |-> who, page |-> page, what |-> what]

\* check_file_existence(file_path)
check_file_existence(p, files) == p \in files


-----------------------------------------------------------------------------
(* Drawio._get_diagram_names *)

\* the names made of [\w-]* only, among those the model's documents use
WordNames == {"A", "B", "page-2", ""}

\* diagname_re = r' *<diagram.*name=\"([\w-]*)\".*>' with re.match: only blanks
\* before '<diagram', and a name attribute of word characters and dashes
diagname_match(line) == line.lead = "" /\ line.name \in WordNames

\* a fallback that numbers the unnamed markers among themselves
RECURSIVE diagnames_loop_unnamed(_, _)
diagnames_loop_unnamed(diaglines, diagnames) ==
    IF Len(diagnames) = Len(diaglines) THEN diagnames
    ELSE LET dc == diaglines[Len(diagnames) + 1]
             unnamed == {j \in 1..Len(diagnames) : ~diagname_match(diaglines[j])}
         IN  diagnames_loop_unnamed(diaglines,
                Append(diagnames,
                    IF diagname_match(dc) THEN "-" \o dc.name
                    ELSE "-page-" \o ToString(Cardinality(unnamed) + 1)))

RECURSIVE diagnames_loop(_, _)
diagnames_loop(diaglines, diagnames) ==
    IF Len(diagnames) = Len(diaglines) THEN diagnames
    ELSE LET dc == diaglines[Len(diagnames) + 1]
         IN  diagnames_loop(diaglines,
                Append(diagnames,
                    IF diagname_match(dc) THEN "-" \o dc.name
                    ELSE "-page-" \o ToString(Len(diagnames) + 1)))

_get_diagram_names(diaglines) ==
    IF Len(diaglines) > 1 THEN diagnames_loop(diaglines, <<>>)
    ELSE IF Len(diaglines) = 1 THEN <<"">>
    ELSE <<>>

-----------------------------------------------------------------------------
(* Backends *)

Backends == <<"inkcvt", "immcvt", "drawio", "gradot", "kroki">>

PoolBackends == {"inkcvt", "immcvt", "gradot", "kroki"}

DrawioTypes == {"pdf", "png", "jpg", "svg", "vsdx", "xml"}

\* self._types of each FigEngine subclass; [] means the format is not checked
_types(b) ==
    CASE b = "gradot" -> {"pdf", "ps", "png", "svg", "fig", "gif", "jpg", "jpeg", "json"}
      [] b = "inkcvt" -> {"eps", "emf", "wmf", "xaml", "pdf", "ps", "png", "svg"}
      [] OTHER -> {}

\* self.appath: the defaults of cli()
appath(b) ==
    CASE b = "drawio" -> "/opt/drawio/drawio"
      [] b = "gradot" -> "/usr/bin/dot"
      [] b = "inkcvt" -> "/usr/bin/inkscape"
      [] b = "immcvt" -> "/usr/bin/magick"
      [] OTHER -> ""

\* a format check that lets every format through
FigFormatUnchecked(b, type) == FALSE

\* if self._types and type not in self._types: exit(1)
FigFormatRejected(b, type) == _types(b) # {} /\ type \notin _types(b)

\* if type not in _types: exit(1)
DioFormatRejected(type) == type \notin DrawioTypes

\* self._tool_box
_tool_box == [k \in {".mmd", ".dot", ".puml"} |->
                CASE k = ".mmd" -> "mermaid"
                  [] k = ".dot" -> "graphviz"
                  [] OTHER -> "plantuml"]

\* a gate that does not look at the force flag
CacheGateNoForce(force, fig_path, files) == ~check_file_existence(fig_path, files)

\* a gate that does not look at the disk
CacheGateOpen(force, fig_path, files) == TRUE

\* if force or not self.check_file_existence(fig_path)
CacheGate(force, fig_path, files) == force \/ ~check_file_existence(fig_path, files)

-----------------------------------------------------------------------------
(* The dispatcher's classification *)

\* the indexes of S in increasing order, from k on
RECURSIVE IndexSeq(_, _, _)
IndexSeq(S, k, n) ==
    IF k > n THEN <<>>
    ELSE (IF k \in S THEN <<k>> ELSE <<>>) \o IndexSeq(S, k + 1, n)

\* the strings of the model that contain '.svg'
SvgDirs == {"a.svg"}
SvgParts == {"svg", "svgz"}

\* '.svg' in f
DotSvgIn(f) ==
    \/ f.dir \in SvgDirs
    \/ \E k \in 2..Len(f.parts) : f.parts[k] \in SvgParts

\* os.path.exists(file) and filter_re.search(file)
Accepted(f) == f.exists /\ FileExt(f) # NoExt

Classify(source) ==
    LET n == Len(source)
        acc == {k \in 1..n : Accepted(source[k])}
        Ext(k) == FileExt(source[k])
        drawios == {k \in acc : Ext(k) = "drawio"}
        dotfiles == {k \in acc : Ext(k) = "dot"}
        mmds == {k \in acc : Ext(k) = "mmd"}
        figs == {k \in acc : Ext(k) \notin {"drawio", "dot", "mmd"}}
        svgs == {k \in figs : DotSvgIn(source[k])}
        others == {k \in figs : ~DotSvgIn(source[k])}
    IN  [inkcvt |-> IndexSeq(svgs, 1, n), immcvt |-> IndexSeq(others, 1, n),
         drawio |-> IndexSeq(drawios, 1, n), gradot |-> IndexSeq(dotfiles, 1, n),
         kroki |-> IndexSeq(mmds, 1, n)]

\* only the missing files are reported
SkipLinesMissingOnly(source) ==
    SetToBag({Msg("No such file, ignore it", PathStr(source[k]), "", "") :
                k \in {j \in 1..Len(source) : ~source[j].exists}})

\* the lines printed for the inputs that are skipped
SkipLines(source) ==
    LET Line(k) == IF ~source[k].exists
                   THEN Msg("No such file, ignore it", PathStr(source[k]), "", "")
                   ELSE Msg("figure-generator can not get type, ignore it",
                            PathStr(source[k]), "", "")
        skipped == {k \in 1..Len(source) : ~Accepted(source[k])}
    IN  SetToBag({Line(k) : k \in skipped})

\* the backend a source index was put in
BackendOf(k) == CHOOSE b \in Range(Backends) : k \in Range(batch[b])

InBatch(k, B) == \E b \in B : k \in Range(batch[b])

NoBatch == [b \in Range(Backends) |-> <<>>]

-----------------------------------------------------------------------------
(* The inputs of the model *)

Dirs == {"a", "b", "a.svg"}
Outputs == {"figures"}
Formats == {"pdf", "gif", "eps"}

\* '<diagram' lines: one with an extractable name, one whose name has a blank
DiagLines == {[lead |-> "", name |-> "A"], [lead |-> "", name |-> "P 1"]}

SeqsUpTo(S, n) == UNION {[1..m -> S] : m \in 0..n}

File(d, s, e, r, l) ==
    [dir |-> d, parts |-> <<s, e>>, exists |-> TRUE, readable |-> r, lines |-> l]

Files ==
    {File("a", "x", "drawio", TRUE, l) : l \in SeqsUpTo(DiagLines, MaxPages)}
    \cup {File("a", "x", "drawio", FALSE, <<>>), File("b", "x", "drawio", TRUE, <<[lead |-> "", name |-> "A"]>>)}
    \cup {File("a", "x", "dot", TRUE, <<>>), File("b", "x", "dot", TRUE, <<>>),
          File("a", "y", "dot", TRUE, <<>>)}
    \cup {File("a", "x", "svg", TRUE, <<>>), File("a", "x", "png", TRUE, <<>>)}
    \cup {File("a", s, "mmd", r, <<>>) : s \in {"x", "y"}, r \in BOOLEAN}
    \* a raster image below a directory named a.svg, and one named x.svg.png
    \cup {File("a.svg", "x", "png", TRUE, <<>>),
          [dir |-> "a", parts |-> <<"x", "svg", "png">>, exists |-> TRUE,
           readable |-> TRUE, lines |-> <<>>]}
    \* a path that does not exist, and a file without an extension
    \cup {[dir |-> "a", parts |-> <<"z", "dot">>, exists |-> FALSE,
           readable |-> FALSE, lines |-> <<>>],
          [dir |-> "a", parts |-> <<"README">>, exists |-> TRUE,
           readable |-> TRUE, lines |-> <<>>]}

\* a command line names up to MaxFiles files
Order(S) == CHOOSE q \in [1..Cardinality(S) -> S] : Range(q) = S

\* a path names one file: no two files of a command line have the same path
OnePerPath(S) == \A f \in S, g \in S : f # g => PathStr(f) # PathStr(g)

\* the subsets of S of at most n elements
RECURSIVE SetsUpTo(_, _)
SetsUpTo(S, n) ==
    IF n = 0 THEN {{}}
    ELSE LET P == SetsUpTo(S, n - 1) IN P \cup {T \cup {f} : T \in P, f \in S}

SourceLists ==
    {Order(S) : S \in {T \in SetsUpTo(Files, MaxFiles) : T # {} /\ OnePerPath(T)}}

\* --convert is read only when a raw image is given
Converts(source) ==
    IF \E k \in 1..Len(source) : FileExt(source[k]) \in {"svg", "png"}
    THEN BOOLEAN ELSE {FALSE}

\* the artifact paths of one input file under a command line
fig_paths(f, a) ==
    LET e == FileExt(f)
    IN  IF e = "drawio"
        THEN LET names == _get_diagram_names(f.lines)
             IN  [j \in 1..Len(names) |->
                    FigPath(Target(f, a.output), DioFn(f), names[j], a.format)]
        ELSE IF e = "mmd"
        THEN <<FigPath(a.output, KrokiFname(f), "", a.format)>>
        ELSE <<FigPath(Target(f, a.output), FigFn(f), "", a.format)>>

Artifacts(a) == UNION {Range(fig_paths(a.source[k], a)) : k \in 1..Len(a.source)}

Idle(n) == [k \in 1..n |-> "idle"]
NoPages(n) == [k \in 1..n |-> [names |-> <<>>, cmds |-> <<>>, st |-> <<>>]]
NoOut(n) == [k \in 1..n |-> <<>>]

Init ==
    /\ args \in [source : SourceLists, output : Outputs, format : Formats,
                 force : BOOLEAN, convert : BOOLEAN]
    /\ args.convert \in Converts(args.source)
    /\ fs \in SUBSET {p \in Artifacts(args) : p.dir # ""}
    /\ \E made \in SUBSET ({p.dir : p \in Artifacts(args)} \ {""}) :
          dirs = Dirs \cup made \cup {p.dir : p \in fs}
    /\ main = [pc |-> "classify", g |-> 1, k |-> 1, status |-> 0, how |-> ""]
    /\ batch = NoBatch
    /\ unit = Idle(Len(args.source))
    /\ pages = NoPages(Len(args.source))
    /\ out = NoOut(Len(args.source))
    /\ prev = NoOut(Len(args.source))
    /\ run = 1
    /\ clobbered = {}
    /\ stderr = EmptyBag
    /\ stdout = EmptyBag

-----------------------------------------------------------------------------
(* The dispatcher: __main__ *)

Terminal == {"done", "raised", "exited", "killed"}

Exit(status, how) == [pc |-> "exit", g |-> main.g, k |-> 1, status |-> status, how |-> how]

\* the statement after the conv_to of backend number g: the conv_to of the next
\* backend whose list is not empty ('if svgs:' ... 'if mmds:'), or the end
AfterConvTo(g) ==
    LET rest == {h \in (g + 1)..Len(Backends) : batch[Backends[h]] # <<>>}
    IN  IF rest = {} THEN Exit(0, "end")
        ELSE [main EXCEPT !.pc = "call", !.k = 1,
                          !.g = CHOOSE h \in rest : \A h2 \in rest : h <= h2]

\* lines 214-236: the classification loop
MainClassify ==
    /\ main.pc = "classify"
    /\ batch' = Classify(args.source)
    /\ stdout' = stdout (+) SkipLines(args.source)
    /\ main' = [main EXCEPT !.pc = "figs"]
    /\ UNCHANGED <<args, fs, dirs, unit, pages, out, prev, run, clobbered, stderr>>

\* raw images converted without being asked for the flag
ConvertNeverMissing(figs, convert) == FALSE

\* lines 238-239: if figs: if not args.convert:
ConvertMissing(figs, convert) == figs # <<>> /\ ~convert

\* lines 238-241: raw images need --convert
MainFigs ==
    /\ main.pc = "figs"
    /\ IF ConvertMissing(batch.inkcvt \o batch.immcvt, args.convert)
       THEN /\ stdout' = stdout (+) SetToBag({Msg("Specify --convert option when convert figures", "", "", "")})
            /\ main' = Exit(1, "exit")
       ELSE /\ stdout' = stdout
            /\ main' = AfterConvTo(0)
    /\ UNCHANGED <<args, fs, dirs, batch, unit, pages, out, prev, run, clobbered, stderr>>

\* the start of conv_to: apply_async of every file (FigEngine.conv_to, lines
\* 52-54), Process(...).start() of every file (Drawio.conv_to, lines 111-114)
ConvToCall ==
    /\ main.pc = "call"
    /\ main' = [main EXCEPT !.pc = "wait", !.k = 1]
    /\ unit' = [k \in DOMAIN unit |->
                  IF k \in Range(batch[Backends[main.g]]) THEN "queued" ELSE unit[k]]
    /\ UNCHANGED <<args, fs, dirs, batch, pages, out, prev, run, clobbered, stderr, stdout>>

\* FigEngine.conv_to, r.get() of a unit that returned; after the last one the
\* with block ends the pool
PoolGet ==
    /\ main.pc = "wait"
    /\ Backends[main.g] \in PoolBackends
    /\ LET rs == batch[Backends[main.g]]
       IN  /\ unit[rs[main.k]] = "done"
           /\ main' = IF main.k = Len(rs) THEN AfterConvTo(main.g)
                      ELSE [main EXCEPT !.k = main.k + 1]
    /\ UNCHANGED <<args, fs, dirs, batch, unit, pages, out, prev, run, clobbered,
                   stderr, stdout>>

\* FigEngine.conv_to, r.get() of a unit that raised: the exception is raised again
\* in the dispatcher, Pool.__exit__ terminates the workers, the traceback is printed
PoolGetRaise ==
    /\ main.pc = "wait"
    /\ Backends[main.g] \in PoolBackends
    /\ LET rs == batch[Backends[main.g]]
       IN  /\ unit[rs[main.k]] = "raised"
           /\ unit' = [k \in DOMAIN unit |->
                         IF k \in Range(rs) /\ unit[k] \notin Terminal
                         THEN "killed" ELSE unit[k]]
    /\ main' = Exit(1, "exception")
    /\ stderr' = stderr (+) SetToBag({Msg("Traceback", "", "", "")})
    /\ UNCHANGED <<args, fs, dirs, batch, pages, out, prev, run, clobbered, stdout>>

\* Drawio.conv_to: p.join() of every process, whatever its exit code
DioJoin ==
    /\ main.pc = "wait"
    /\ Backends[main.g] = "drawio"
    /\ \A k \in Range(batch.drawio) : unit[k] \in Terminal
    /\ main' = AfterConvTo(main.g)
    /\ UNCHANGED <<args, fs, dirs, batch, unit, pages, out, prev, run, clobbered,
                   stderr, stdout>>


-----------------------------------------------------------------------------
(* Units of work *)

Issued == {"ok", "failed", "error"}

Say(bag, line) == bag (+) SetToBag({line})

\* the units of a pool that hold a worker
Running(b) == {k \in Range(batch[b]) : unit[k] \in {"mkdir", "gate", "exec"}}

PoolFree(b) == Cardinality(Running(b)) < processes

\* what the external tool leaves on disk: the artifact when it exits with 0,
\* nothing new when it fails
ToolWrites(ok, fig_path, files) == IF ok THEN files \cup {fig_path} ELSE files

(* FigEngine.conv_single_to: Gradot, Inkcvt, Immcvt *)

FigUnit(k) == k \in DOMAIN unit /\ InBatch(k, {"inkcvt", "immcvt", "gradot"})

FigTarget(k) == Target(args.source[k], args.output)

FigUnitPath(k) == FigPath(FigTarget(k), FigFn(args.source[k]), "", args.format)

\* lines 39-41, reached once the target directory exists
FigCheckFormat(k) ==
    IF FigFormatRejected(BackendOf(k), args.format)
    THEN /\ stderr' = Say(stderr, Msg("Error: can not convert to", appath(BackendOf(k)), "", args.format))
         /\ unit' = [unit EXCEPT ![k] = "exited"]
    ELSE /\ stderr' = stderr
         /\ unit' = [unit EXCEPT ![k] = "gate"]

\* lines 33-36: a worker takes the task and tests os.path.exists(target)
FigStart(k) ==
    /\ FigUnit(k)
    /\ unit[k] = "queued"
    /\ PoolFree(BackendOf(k))
    /\ IF FigTarget(k) \in dirs
       THEN FigCheckFormat(k)
       ELSE unit' = [unit EXCEPT ![k] = "mkdir"] /\ stderr' = stderr
    /\ UNCHANGED <<args, fs, dirs, main, batch, pages, out, prev, run, clobbered, stdout>>

\* line 37: os.mkdir(target) raises FileExistsError when the directory is there
FigMkdir(k) ==
    /\ FigUnit(k)
    /\ unit[k] = "mkdir"
    /\ IF FigTarget(k) \in dirs
       THEN /\ unit' = [unit EXCEPT ![k] = "raised"]
            /\ UNCHANGED <<dirs, stderr>>
       ELSE /\ dirs' = dirs \cup {FigTarget(k)}
            /\ FigCheckFormat(k)
    /\ UNCHANGED <<args, fs, main, batch, pages, out, prev, run, clobbered, stdout>>

\* lines 43-44: the cache gate
FigGate(k) ==
    /\ FigUnit(k)
    /\ unit[k] = "gate"
    /\ IF CacheGate(args.force, FigUnitPath(k), fs)
       THEN unit' = [unit EXCEPT ![k] = "exec"] /\ out' = out
       ELSE unit' = [unit EXCEPT ![k] = "done"] /\ out' = [out EXCEPT ![k] = <<"cached">>]
    /\ UNCHANGED <<args, fs, dirs, main, batch, pages, prev, run, clobbered, stderr, stdout>>

\* a shelldo that raises leaves conv_single_to with the exception
ShelldoUncaught(ok) == IF ok THEN "done" ELSE "raised"

\* lines 46-49, try/except around shelldo: the function returns either way
AfterShelldo(ok) == "done"

\* lines 45-49: the command runs; a non-zero exit is caught and reported
FigExec(k) ==
    /\ FigUnit(k)
    /\ unit[k] = "exec"
    /\ \E ok \in BOOLEAN :
          /\ fs' = ToolWrites(ok, FigUnitPath(k), fs)
          /\ out' = [out EXCEPT ![k] = IF ok THEN <<"ok">> ELSE <<"failed">>]
          /\ stderr' = IF ok THEN stderr
                       ELSE Say(stderr, Msg("Error: execute failed", appath(BackendOf(k)), "", ""))
          /\ unit' = [unit EXCEPT ![k] = AfterShelldo(ok)]
    /\ clobbered' = IF FigUnitPath(k) \in fs THEN clobbered \cup {FigUnitPath(k)}
                    ELSE clobbered
    /\ UNCHANGED <<args, dirs, main, batch, pages, prev, run, stdout>>


(* Drawio.conv_single_to, one process per document *)

DioUnit(k) == k \in DOMAIN unit /\ InBatch(k, {"drawio"})

DioTarget(k) == Target(args.source[k], args.output)

\* line 102: fig_paths
DioFigPaths(k, diagnames) ==
    [j \in 1..Len(diagnames) |->
        FigPath(DioTarget(k), DioFn(args.source[k]), diagnames[j], args.format)]

\* line 100
addopt(type) == IF type = "pdf" THEN "--crop" ELSE ""

\* cmds built by filtering: the page index counts the exported pages only
PageCmdCompact(k, i, fig_path, files) ==
    IF ~check_file_existence(fig_path, files) \/ args.force
    THEN <<args.format, Len(SelectSeq(pages[k].cmds, LAMBDA c : c # <<>>)),
           addopt(args.format), fig_path, k>>
    ELSE <<>>

\* lines 103-104, one element of cmds: the arguments of _convert (without the
\* tool's path), or [] for a page whose artifact is there.  i is the 1-based
\* position in diagnames, the page index of the command is i - 1
PageCmd(k, i, fig_path, files) ==
    IF ~check_file_existence(fig_path, files) \/ args.force
    THEN <<args.format, i - 1, addopt(args.format), fig_path, k>>
    ELSE <<>>

Fill(n, v) == [j \in 1..n |-> v]

\* lines 95-99, reached once the target directory exists: the format check, then
\* _get_diagram_names opens the document
DioCheckFormat(k) ==
    IF DioFormatRejected(args.format)
    THEN /\ stderr' = Say(stderr, Msg("Error: drawio can not convert to", "", "", args.format))
         /\ unit' = [unit EXCEPT ![k] = "exited"]
         /\ UNCHANGED <<pages, out>>
    ELSE IF ~args.source[k].readable
    THEN /\ stderr' = Say(stderr, Msg("Traceback", PathStr(args.source[k]), "", ""))
         /\ unit' = [unit EXCEPT ![k] = "raised"]
         /\ UNCHANGED <<pages, out>>
    ELSE LET diagnames == _get_diagram_names(args.source[k].lines)
         IN  /\ pages' = [pages EXCEPT ![k] = [names |-> diagnames, cmds |-> <<>>,
                                               st |-> <<>>]]
             /\ out' = [out EXCEPT ![k] = Fill(Len(diagnames), "none")]
             /\ unit' = [unit EXCEPT ![k] = IF diagnames = <<>> THEN "pool" ELSE "gate"]
             /\ stderr' = stderr

\* lines 90-93: the process starts and tests os.path.exists(target)
DioStart(k) ==
    /\ DioUnit(k)
    /\ unit[k] = "queued"
    /\ IF DioTarget(k) \in dirs
       THEN DioCheckFormat(k)
       ELSE unit' = [unit EXCEPT ![k] = "mkdir"] /\ UNCHANGED <<pages, out, stderr>>
    /\ UNCHANGED <<args, fs, dirs, main, batch, prev, run, clobbered, stdout>>

\* line 94: os.mkdir(target)
DioMkdir(k) ==
    /\ DioUnit(k)
    /\ unit[k] = "mkdir"
    /\ IF DioTarget(k) \in dirs
       THEN /\ unit' = [unit EXCEPT ![k] = "raised"]
            /\ stderr' = Say(stderr, Msg("Traceback", PathStr(args.source[k]), "", ""))
            /\ UNCHANGED <<dirs, pages, out>>
       ELSE /\ dirs' = dirs \cup {DioTarget(k)}
            /\ DioCheckFormat(k)
    /\ UNCHANGED <<args, fs, main, batch, prev, run, clobbered, stdout>>

\* lines 103-106: the next element of cmds; after the last one map_async hands
\* every element to the page pool
DioGate(k) ==
    /\ DioUnit(k)
    /\ unit[k] = "gate"
    /\ LET pg == pages[k]
           i == Len(pg.cmds) + 1
           cmd == PageCmd(k, i, DioFigPaths(k, pg.names)[i], fs)
           last == i = Len(pg.names)
       IN  /\ pages' = [pages EXCEPT ![k].cmds = Append(pg.cmds, cmd),
                                     ![k].st = IF last THEN Fill(i, "queued") ELSE <<>>]
           /\ out' = IF cmd = <<>> THEN [out EXCEPT ![k][i] = "cached"] ELSE out
           /\ unit' = [unit EXCEPT ![k] = IF last THEN "pool" ELSE "gate"]
    /\ UNCHANGED <<args, fs, dirs, main, batch, prev, run, clobbered, stderr, stdout>>

\* lines 78-87: Drawio._convert of element i of cmds in a worker of the page pool
_convert(k, i) ==
    /\ DioUnit(k)
    /\ unit[k] = "pool"
    /\ i \in DOMAIN pages[k].st
    /\ pages[k].st[i] = "queued"
    /\ pages' = [pages EXCEPT ![k].st[i] = "done"]
    /\ LET cmd == pages[k].cmds[i]
       IN  IF Len(cmd) = 0
           THEN UNCHANGED <<fs, out, clobbered, stderr, stdout>>
           ELSE /\ \E ok \in BOOLEAN :
                      /\ fs' = ToolWrites(ok, cmd[4], fs)
                      /\ out' = [out EXCEPT ![k][i] = IF ok THEN "ok" ELSE "failed"]
                      /\ stdout' = IF ok THEN Say(stdout, Msg("->", PathStr(args.source[cmd[5]]), ToString(cmd[2]),
                                                  PathStr2(cmd[4])))
                                   ELSE stdout
                      /\ stderr' = IF ok THEN stderr
                                   ELSE Say(stderr, Msg("Error: Convert failed",
                                                  PathStr(args.source[cmd[5]]), ToString(cmd[2]), ""))
                /\ clobbered' = IF cmd[4] \in fs THEN clobbered \cup {cmd[4]}
                                ELSE clobbered
    /\ UNCHANGED <<args, dirs, main, batch, unit, prev, run>>

\* lines 107-108: result.wait() returns when every _convert has returned
DioWait(k) ==
    /\ DioUnit(k)
    /\ unit[k] = "pool"
    /\ \A i \in DOMAIN pages[k].st : pages[k].st[i] = "done"
    /\ Len(pages[k].st) = Len(pages[k].names)
    /\ unit' = [unit EXCEPT ![k] = "done"]
    /\ UNCHANGED <<args, fs, dirs, main, batch, pages, out, prev, run, clobbered,
                   stderr, stdout>>

(* Kroki.conv_single_to *)

KrokiUnit(k) == k \in DOMAIN unit /\ InBatch(k, {"kroki"})

KrokiPath(k) == FigPath(args.output, KrokiFname(args.source[k]), "", args.format)

\* lines 155-168: the source is read and encoded, the tool is looked up, then
\* os.path.exists(target) is tested
KrokiStart(k) ==
    /\ KrokiUnit(k)
    /\ unit[k] = "queued"
    /\ PoolFree("kroki")
    /\ unit' = [unit EXCEPT ![k] =
                  IF ~args.source[k].readable THEN "raised"
                  ELSE IF KrokiSufx(args.source[k]) \notin DOMAIN _tool_box THEN "raised"
                  ELSE IF args.output \in dirs THEN "gate"
                  ELSE "mkdir"]
    /\ UNCHANGED <<args, fs, dirs, main, batch, pages, out, prev, run, clobbered,
                   stderr, stdout>>

\* line 169: os.mkdir(target); there is no default for an empty target
KrokiMkdir(k) ==
    /\ KrokiUnit(k)
    /\ unit[k] = "mkdir"
    /\ IF args.output = "" \/ args.output \in dirs
       THEN unit' = [unit EXCEPT ![k] = "raised"] /\ dirs' = dirs
       ELSE unit' = [unit EXCEPT ![k] = "gate"] /\ dirs' = dirs \cup {args.output}
    /\ UNCHANGED <<args, fs, main, batch, pages, out, prev, run, clobbered, stderr, stdout>>

\* lines 170-171: the cache gate
KrokiGate(k) ==
    /\ KrokiUnit(k)
    /\ unit[k] = "gate"
    /\ IF CacheGate(args.force, KrokiPath(k), fs)
       THEN unit' = [unit EXCEPT ![k] = "exec"] /\ out' = out
       ELSE unit' = [unit EXCEPT ![k] = "done"] /\ out' = [out EXCEPT ![k] = <<"cached">>]
    /\ UNCHANGED <<args, fs, dirs, main, batch, pages, prev, run, clobbered, stderr, stdout>>

Responses == {"200", "404", "exception"}

\* lines 172-177: requests.get; 200 writes the body, any other status is reported,
\* an exception of requests leaves the function
KrokiGet(k) ==
    /\ KrokiUnit(k)
    /\ unit[k] = "exec"
    /\ \E response \in Responses :
          /\ fs' = IF response = "200" THEN fs \cup {KrokiPath(k)} ELSE fs
          /\ out' = [out EXCEPT ![k] = CASE response = "200" -> <<"ok">>
                                         [] response = "404" -> <<"failed">>
                                         [] OTHER -> <<"error">>]
          /\ stderr' = IF response = "404"
                       THEN Say(stderr, Msg("Error: Remote response error", "", "", ""))
                       ELSE stderr
          /\ unit' = [unit EXCEPT ![k] = IF response = "exception" THEN "raised"
                                         ELSE "done"]
          /\ clobbered' = IF response = "200" /\ KrokiPath(k) \in fs
                          THEN clobbered \cup {KrokiPath(k)} ELSE clobbered
    /\ UNCHANGED <<args, dirs, main, batch, pages, prev, run, stdout>>

-----------------------------------------------------------------------------
(* The same command line once more, on the disk the run before left *)

Rerun ==
    /\ main.pc = "exit"
    /\ run < MaxRuns
    /\ run' = run + 1
    /\ prev' = out
    /\ main' = [pc |-> "classify", g |-> 1, k |-> 1, status |-> 0, how |-> ""]
    /\ batch' = NoBatch
    /\ unit' = Idle(Len(args.source))
    /\ pages' = NoPages(Len(args.source))
    /\ out' = NoOut(Len(args.source))
    /\ stderr' = EmptyBag
    /\ stdout' = EmptyBag
    /\ UNCHANGED <<args, fs, dirs, clobbered>>

Units == 1..MaxFiles
PageNos == 1..MaxPages

Convert ==
    \/ MainClassify
    \/ MainFigs
    \/ ConvToCall
    \/ PoolGet
    \/ PoolGetRaise
    \/ DioJoin
    \/ \E k \in Units : FigStart(k)
    \/ \E k \in Units : FigMkdir(k)
    \/ \E k \in Units : FigGate(k)
    \/ \E k \in Units : FigExec(k)
    \/ \E k \in Units : DioStart(k)
    \/ \E k \in Units : DioMkdir(k)
    \/ \E k \in Units : DioGate(k)
    \/ \E k \in Units, i \in PageNos : _convert(k, i)
    \/ \E k \in Units : DioWait(k)
    \/ \E k \in Units : KrokiStart(k)
    \/ \E k \in Units : KrokiMkdir(k)
    \/ \E k \in Units : KrokiGate(k)
    \/ \E k \in Units : KrokiGet(k)

\* one invocation
Spec == Init /\ [][Convert]_vars

\* the same invocation MaxRuns times in succession
Next == Convert \/ Rerun

SpecTwice == Init /\ [][Next]_vars


-----------------------------------------------------------------------------
(* Drawio.conv_to with more documents than a pool has workers: the documents *)
(* have no page but the first, and the target directory exists               *)

ManyDocs == processes + 1

ManySource(lines) ==
    [k \in 1..ManyDocs |->
        File("a", "d" \o ToString(k), "drawio", TRUE, IF k = 1 THEN lines ELSE <<>>)]

InitMany ==
    /\ \E lines \in SeqsUpTo(DiagLines, 1) :
          args = [source |-> ManySource(lines), output |-> "figures", format |-> "pdf",
                  force |-> FALSE, convert |-> FALSE]
    /\ fs = {}
    /\ dirs = Dirs \cup {"figures"}
    /\ main = [pc |-> "classify", g |-> 1, k |-> 1, status |-> 0, how |-> ""]
    /\ batch = NoBatch
    /\ unit = Idle(ManyDocs)
    /\ pages = NoPages(ManyDocs)
    /\ out = NoOut(ManyDocs)
    /\ prev = NoOut(ManyDocs)
    /\ run = 1
    /\ clobbered = {}
    /\ stderr = EmptyBag
    /\ stdout = EmptyBag

\* the steps of Convert that these inputs can take
ConvertMany ==
    \/ MainClassify
    \/ MainFigs
    \/ ConvToCall
    \/ DioJoin
    \/ \E k \in 1..ManyDocs : DioStart(k)
    \/ \E k \in 1..ManyDocs : DioGate(k)
    \/ \E k \in 1..ManyDocs, i \in PageNos : _convert(k, i)
    \/ \E k \in 1..ManyDocs : DioWait(k)

SpecMany == InitMany /\ [][ConvertMany]_vars

-----------------------------------------------------------------------------
(* Properties *)

\* the units of work that have an outcome: <<file index, page position>>
UnitsOfWork == UNION {{<<k, i>> : i \in DOMAIN out[k]} : k \in DOMAIN out}

\* the artifact path the code gave a unit of work
UnitPathOf(k, i) ==
    IF DioUnit(k) THEN DioFigPaths(k, pages[k].names)[i]
    ELSE IF KrokiUnit(k) THEN KrokiPath(k)
    ELSE FigUnitPath(k)

Ended == main.pc = "exit"

C2_NeverIssuedOnExisting == ~args.force => clobbered = {}

\* C3, as stated: no two units of work of one run that issue their action have
\* the same artifact path.
C3_DistinctPaths ==
    \A u \in UnitsOfWork, v \in UnitsOfWork :
        (u # v /\ out[u[1]][u[2]] \in Issued /\ out[v[1]][v[2]] \in Issued)
            => UnitPathOf(u[1], u[2]) # UnitPathOf(v[1], v[2])

\* C4, as stated: a unit that fails with an exception of its own (an unreadable
\* source, an exception of the HTTP call) is not raised past conv_to and no
\* sibling is cancelled.
C4_FailureIsolated ==
    \A k \in DOMAIN unit :
        unit[k] = "raised" =>
            /\ main.how # "exception"
            /\ \A k2 \in DOMAIN unit : unit[k2] # "killed"

\* the diagnostics of failed executions: FigEngine, Drawio._convert, Kroki
ExecErrorTexts == {"Error: execute failed", "Error: Convert failed",
                   "Error: Remote response error"}

ExecErrors == Cardinality({u \in UnitsOfWork : out[u[1]][u[2]] = "failed"})

RECURSIVE BagCount(_, _)
BagCount(bag, elems) ==
    IF elems = {} THEN 0
    ELSE LET e == CHOOSE x \in elems : TRUE
         IN  CopiesIn(e, bag) + BagCount(bag, elems \ {e})

ExecErrorLines ==
    BagCount(stderr, {m \in BagToSet(stderr) : m.text \in ExecErrorTexts})

\* C5: a command that exits non-zero or a remote answer other than 200 is
\* reported and stops nothing: the unit returns normally, one line is written per
\* failure, and a run in which no unit raised or left its process converts every
\* file of every backend group and ends with status 0.
C5_ExecFailureContinues ==
    /\ \A u \in UnitsOfWork :
          out[u[1]][u[2]] = "failed" => unit[u[1]] \in {"pool", "done"}
    /\ ExecErrorLines = ExecErrors
    /\ (Ended /\ main.how # "exit"
        /\ \A k \in DOMAIN unit : unit[k] \notin {"raised", "exited", "killed"})
       => /\ main.status = 0
          /\ \A b \in Range(Backends) : \A k \in Range(batch[b]) : unit[k] = "done"

\* a unit failed, and a file of a later backend group was converted after it
C5_Witness ==
    /\ Ended /\ main.status = 0
    /\ \E k \in DOMAIN unit, k2 \in DOMAIN unit :
          /\ out[k] = <<"failed">>
          /\ out[k2] = <<"ok">>
          /\ BackendOf(k) = "gradot" /\ BackendOf(k2) = "kroki"


\* the position of a file's backend in the dispatcher's order
BackendIndex(k) == CHOOSE h \in 1..Len(Backends) : k \in Range(batch[Backends[h]])

Converted == UNION {Range(batch[b]) : b \in Range(Backends)}

\* C6, as stated: once a unit met a format outside its backend's allow-list, no
\* file of a backend group that comes later in the dispatcher is converted, and
\* the invocation ends with a non-zero status.
C6_HardStop ==
    \A k \in Converted :
        unit[k] = "exited" =>
            /\ \A k2 \in Converted : BackendIndex(k2) > BackendIndex(k) => unit[k2] = "idle"
            /\ Ended => main.status # 0

\* the allow-list of a backend; {} for a backend that does not check the format
AllowList(b) == IF b = "drawio" THEN DrawioTypes ELSE _types(b)

Rejects(b) == AllowList(b) # {} /\ args.format \notin AllowList(b)

\* C7: when the requested format is outside the allow-list of a format-checked
\* backend, no unit of that backend's batch ever builds or issues a command.
C7_FormatGate ==
    \A b \in Range(Backends) :
        Rejects(b) =>
            \A k \in Range(batch[b]) :
                /\ unit[k] \notin {"gate", "exec", "pool", "done"}
                /\ pages[k].cmds = <<>>
                /\ \A i \in DOMAIN out[k] : out[k][i] \notin Issued

\* every file of a batch of two met the format check of a pool backend
C7_Witness ==
    /\ Rejects("gradot")
    /\ Len(batch.gradot) = 2
    /\ \A k \in Range(batch.gradot) : unit[k] = "exited"

\* C8, as stated: a document with K >= 2 page markers whose export commands all
\* ran and succeeded has K artifacts on disk, with pairwise distinct suffixes.
C8_PageCount ==
    \A k \in DOMAIN unit :
        LET K == Len(args.source[k].lines)
            paths == DioFigPaths(k, pages[k].names)
        IN  (DioUnit(k) /\ unit[k] = "done" /\ K >= 2
             /\ \A i \in DOMAIN out[k] : out[k][i] = "ok")
            => /\ Len(out[k]) = K
               /\ Cardinality(Range(paths) \cap fs) = K
               /\ \A i \in 1..K, j \in 1..K :
                     i # j => pages[k].names[i] # pages[k].names[j]

\* C9, as stated: a document with K <= 1 page markers, K = 0 included, gets one
\* empty suffix and, when no command failed, the artifact <output-dir>/<basename>.<format>.
C9_SinglePage ==
    \A k \in DOMAIN unit :
        (DioUnit(k) /\ unit[k] = "done" /\ Len(args.source[k].lines) <= 1
         /\ \A i \in DOMAIN out[k] : out[k][i] # "failed")
        => /\ pages[k].names = <<"">>
           /\ FigPath(DioTarget(k), DioFn(args.source[k]), "", args.format) \in fs

\* one step of the model seen by C10
C10_Step ==
    \A k \in DOMAIN pages :
        DioUnit(k) =>
            LET diagnames == _get_diagram_names(args.source[k].lines)
                paths == DioFigPaths(k, diagnames)
                cmds == pages'[k].cmds
            IN  /\ \A i \in DOMAIN cmds :
                      /\ cmds[i] # <<>> =>
                            cmds[i][2] = i - 1 /\ cmds[i][4] = paths[i] /\ cmds[i][5] = k
                      /\ i > Len(pages[k].cmds) =>
                            (cmds[i] # <<>> <=> (args.force \/ paths[i] \notin fs))
                /\ \A i \in DOMAIN out'[k] :
                      (out'[k][i] \in Issued /\ out[k][i] \notin Issued) =>
                          cmds[i] # <<>> /\ fs' \subseteq fs \cup {paths[i]}
                /\ unit'[k] = "done" =>
                      \A i \in 1..Len(diagnames) :
                          out'[k][i] \in Issued <=> cmds[i] # <<>>

\* C10: every element of cmds that is a command carries the 0-based position of
\* its page marker and the path made of the suffix at that position; it is a
\* command exactly when force is set or the path is missing when it is built;
\* a page is exported only by its own command, to its own path, and a finished
\* document exported exactly the pages that have a command.
C10_PageIndexMatchesSuffix == [][C10_Step]_vars

\* the first page was skipped as cached and the second was exported as page 1
C10_Witness ==
    \E k \in DOMAIN unit :
        /\ DioUnit(k) /\ unit[k] = "done"
        /\ out[k] = <<"cached", "ok">>
        /\ pages[k].cmds[1] = <<>>
        /\ pages[k].cmds[2][2] = 1

\* the documents whose diagnames have been computed
NamesKnown(k) == DioUnit(k) /\ unit[k] \in {"gate", "pool", "done"}

\* C11: in a document with two or more page markers, a marker without an
\* extractable name gets the suffix -page-<p>, p the 1-based position of the
\* marker among all markers, whatever the markers before it are.
C11_FallbackPosition ==
    \A k \in DOMAIN unit :
        (NamesKnown(k) /\ Len(args.source[k].lines) >= 2) =>
            /\ Len(pages[k].names) = Len(args.source[k].lines)
            /\ \A i \in 1..Len(args.source[k].lines) :
                  ~diagname_match(args.source[k].lines[i]) =>
                      pages[k].names[i] = "-page-" \o ToString(i)

\* a named first page and an unnamed second page, exported as x-page-2
C11_Witness ==
    \E k \in DOMAIN unit :
        /\ DioUnit(k) /\ unit[k] = "done"
        /\ Len(args.source[k].lines) = 2
        /\ diagname_match(args.source[k].lines[1])
        /\ ~diagname_match(args.source[k].lines[2])
        /\ pages[k].names = <<"-A", "-page-2">>
        /\ out[k] = <<"ok", "ok">>

\* the number of units of work of a file that reached its cache gate
UnitCount(k) == IF DioUnit(k) THEN Len(pages[k].names) ELSE 1

\* C12: with the force flag no unit of work is skipped as cached: a file whose
\* conv_single_to returned issued the action of every one of its units, whether
\* the artifact existed or not, and the artifact of a successful action is on disk.
C12_ForceIssues ==
    args.force =>
        \A k \in DOMAIN unit :
            /\ \A i \in DOMAIN out[k] :
                  /\ out[k][i] # "cached"
                  /\ out[k][i] = "ok" => UnitPathOf(k, i) \in fs
            /\ unit[k] = "done" =>
                  /\ Len(out[k]) = UnitCount(k)
                  /\ \A i \in DOMAIN out[k] : out[k][i] \in Issued

\* with force, an action succeeded on an artifact that was there before
C12_Witness ==
    /\ args.force
    /\ \E k \in DOMAIN unit :
          /\ unit[k] = "done" /\ out[k] = <<"ok">>
          /\ UnitPathOf(k, 1) \in clobbered

\* a raw image among the inputs: the path exists and its extension is none of
\* drawio, dot, mmd
RawImageGiven ==
    \E k \in 1..Len(args.source) :
        Accepted(args.source[k]) /\ FileExt(args.source[k]) \notin {"drawio", "dot", "mmd"}

NoWorkDone ==
    /\ \A k \in DOMAIN unit : unit[k] = "idle" /\ out[k] = <<>>
    /\ clobbered = {}
    /\ stderr = EmptyBag
    /\ Ended => main.status # 0 /\ main.how = "exit"

\* one step of a run that was given a raw image without --convert
C13_Step ==
    (RawImageGiven /\ ~args.convert) =>
        /\ NoWorkDone /\ NoWorkDone'
        /\ fs' = fs /\ dirs' = dirs
        /\ main.pc = "figs" => main'.pc = "exit"

\* C13: a raw image among the inputs without the allow-conversion flag ends the
\* run with a non-zero status before any conv_to: no unit of any group starts,
\* nothing is written, and the step after the classification is the exit.
C13_UsageErrorFirst == [][C13_Step]_vars

\* the run ended with the usage error while a diagram was among the inputs
C13_Witness ==
    /\ RawImageGiven /\ ~args.convert
    /\ Ended /\ main.status = 1
    /\ batch.drawio # <<>>
    /\ \A k \in DOMAIN unit : unit[k] = "idle"

\* the backend groups an input was put in, and how often it stands in a group
GroupsOf(k) == {b \in Range(Backends) : k \in Range(batch[b])}

TimesIn(k, b) == Cardinality({j \in 1..Len(batch[b]) : batch[b][j] = k})

SkipTexts == {"No such file, ignore it", "figure-generator can not get type, ignore it"}

\* the number of lines that report input k as ignored
SkipLinesOf(k) ==
    BagCount(stdout, {m \in BagToSet(stdout) :
                        m.text \in SkipTexts /\ m.who = PathStr(args.source[k])})

RemoteErrorLines ==
    BagCount(stderr, {m \in BagToSet(stderr) : m.text = "Error: Remote response error"})

\* the remote answers other than 200 of this run
RemoteErrors == {k \in DOMAIN unit : KrokiUnit(k) /\ out[k] = <<"failed">>}

\* an answer other than 200 is reported by one line and writes no file
RemoteErrorStep ==
    \A k \in DOMAIN unit :
        (KrokiUnit(k) /\ unit[k] = "exec" /\ out'[k] = <<"failed">>) =>
            fs' = fs /\ unit'[k] = "done"

RemoteErrorReported ==
    /\ RemoteErrorLines = Cardinality(RemoteErrors)
    /\ [][RemoteErrorStep]_vars

\* C15, as stated: after a remote answer other than 200 the error is reported
\* and the run ends with a non-zero exit status.
C15_RemoteErrorStatus ==
    RemoteErrors # {} =>
        /\ RemoteErrorLines = Cardinality(RemoteErrors)
        /\ Ended => main.status # 0

\* the document processes that are started and have not ended
DioRunning == {k \in DOMAIN unit : DioUnit(k) /\ unit[k] \in {"mkdir", "gate", "pool"}}

\* the documents whose page pool is open
DioPools == {k \in DOMAIN unit : DioUnit(k) /\ unit[k] = "pool"}

\* C16, as stated: at every moment at most 8 document tasks of Drawio.conv_to
\* run, so that at most 8 page pools of 8 workers are open.
C16_DocTasksBounded ==
    /\ Cardinality(DioRunning) <= processes
    /\ Cardinality(DioPools) * processes <= processes * processes

\* the dispatcher waits in r.get() for a unit whose pool worker left with exit(1)
WaitsForExited ==
    /\ main.pc = "wait"
    /\ Backends[main.g] \in PoolBackends
    /\ unit[batch[Backends[main.g]][main.k]] = "exited"

\* a run that has not ended and can take no step is one that waits for a lost task
HangOnlyAfterWorkerExit == (~Ended /\ ~ENABLED Convert) => WaitsForExited

\* C17, as stated: every external action terminates in the model, so a run that
\* has not reached its exit can always take a step: conv_to never waits forever.
C17_NeverWaitsForever == ~Ended => ENABLED Convert

\* one step of the model seen by C18
C18_Step ==
    \A k \in DOMAIN unit :
        unit[k] = "mkdir" =>
            /\ Target(args.source[k], args.output) \in dirs => unit'[k] # "raised"
            /\ unit'[k] \notin {"mkdir", "killed"} =>
                  Target(args.source[k], args.output) \in dirs'

\* C18, as stated: a unit that found the target directory missing does not fail
\* in its os.mkdir when a sibling has created the directory in between, and the
\* directory exists once the unit is past its os.mkdir.
C18_MkdirNoInterference == [][C18_Step]_vars

\* the raw images of the command line
RawImages == Range(batch.inkcvt) \cup Range(batch.immcvt)

\* C19, as stated: a raw image goes to Inkcvt exactly when its own extension is
\* svg and to Immcvt otherwise, whatever its directory and the earlier dots of
\* its name are.
C19_VectorBySuffix ==
    \A k \in RawImages :
        /\ k \in Range(batch.inkcvt) <=> FileExt(args.source[k]) = "svg"
        /\ k \in Range(batch.immcvt) <=> FileExt(args.source[k]) # "svg"

\* the two sub-groups do partition the raw images
RawImagesPartitioned ==
    /\ Range(batch.inkcvt) \cap Range(batch.immcvt) = {}
    /\ main.pc # "classify" =>
          RawImages = {k \in 1..Len(args.source) :
                          Accepted(args.source[k])
                          /\ FileExt(args.source[k]) \notin {"drawio", "dot", "mmd"}}

\* the diagnostics of failed executions that name the input path of file k and,
\* for a page of a document with several pages, the 0-based index of page i
LinesNaming(k, i) ==
    {m \in BagToSet(stderr) :
        /\ m.text \in ExecErrorTexts
        /\ m.who = PathStr(args.source[k])
        /\ (DioUnit(k) /\ Len(out[k]) > 1) => m.page = ToString(i - 1)}

Attributed(u) == BagCount(stderr, LinesNaming(u[1], u[2])) >= 1

\* the diagnostics of Drawio._convert name the document and the page
DioDiagnosticsAttributable ==
    \A u \in UnitsOfWork :
        (DioUnit(u[1]) /\ out[u[1]][u[2]] = "failed") => Attributed(u)

\* C20, as stated: every failed unit of work of every backend has one diagnostic
\* line, and the line names the input path of the unit and, in a document with
\* several pages, the page index.
C20_AttributableDiagnostics ==
    /\ ExecErrorLines = ExecErrors
    /\ \A u \in UnitsOfWork : out[u[1]][u[2]] = "failed" => Attributed(u)

=============================================================================
